---- MODULE Spec2Model ----
(***************************************************************************)
(* Model of examples/python/simple.py: a script that opens an SLCAN bus    *)
(* through the python-can library, sends frame 0x123, sleeps 0.5 s,        *)
(* listens for 10 s, sends frame 0x456 and shuts the bus down.             *)
(*                                                                         *)
(* The library (can.interface.Bus, can.Message, bus.send, bus.recv,        *)
(* bus.shutdown) and time.sleep are the environment: every call of one of  *)
(* them chooses its outcome nondeterministically among returning normally, *)
(* raising an Exception, and being interrupted by a KeyboardInterrupt      *)
(* (Ctrl-C while the script blocks in the call).  can.Message raises       *)
(* exactly when its data cannot be turned into a bytearray.  print and     *)
(* time.time are modelled as never raising.                                *)
(*                                                                         *)
(* Time is counted in ticks; Resolution ticks make one tenth of a second.  *)
(* A bus.recv that returns None has waited its whole timeout; one that     *)
(* returns a frame took between one tick and its timeout.                  *)
(*                                                                         *)
(* The module can be run as a script (main) or imported, so a behaviour    *)
(* starts with a call of main(), of send_test_message(bus, can_id, data)   *)
(* or of receive_messages(bus, timeout) on an open bus.                    *)
(***************************************************************************)
EXTENDS Integers, Sequences, FiniteSets, TLC

VARIABLES
    entry,       \* the function the behaviour started in
    pc,          \* the statement about to run
    retpc,       \* where the running callee returns to
    session,     \* the bus as the library sees it: "Closed", "Open", "Shutdown"
    bus,         \* main's local variable bus: "unset", "None", "Bus"
    can_id,      \* send_test_message's argument can_id
    data,        \* send_test_message's argument data
    timeout,     \* receive_messages' argument timeout, in ticks
    clock,       \* time.time(), in ticks
    start_time,  \* receive_messages' local start_time
    ret,         \* the value the last returned function returned
    exc,         \* the exception in flight: "none", "Exception", "KeyboardInterrupt"
    ops,         \* history: the bus calls issued, consecutive recv calls as one
    sends,       \* history: one record per send_test_message call
    hist,        \* history: the outcome of each library call
    out,         \* the kinds of line printed so far
    exit         \* how main ended: "-", "0", "1", or the uncaught exception

vars == <<entry, pc, retpc, session, bus, can_id, data, timeout, clock,
          start_time, ret, exc, ops, sends, hist, out, exit>>

----------------------------------------------------------------------------
(* Bounds of the model *)

\* ticks per tenth of a second
Resolution == 2

\* the largest timeout, in ticks, of a direct receive_messages call
MaxTimeout == 7

----------------------------------------------------------------------------
(* Program constants *)

\* bus.recv(timeout=0.1), in tenths of a second
RecvTimeoutTenths == 1

\* time.sleep(0.5), in tenths of a second
SleepTenths == 5

\* receive_messages(bus, timeout=10.0), in tenths of a second
WindowTenths == 100

\* 0x123
FirstId == 291

\* 0x456
SecondId == 1110

RecvTimeout == RecvTimeoutTenths * Resolution
SleepTime == SleepTenths * Resolution
Window == WindowTenths * Resolution

FirstData == <<1, 2, 3, 4, 5, 6, 7, 8>>
SecondData == <<170, 187, 204, 221>>

\* the default data of send_test_message, an empty payload, and two values
\* bytearray() rejects
DirectData == {<<1, 2, 3, 4>>, <<>>, <<256>>, <<1, -1>>}
DirectIds == {FirstId, SecondId}

----------------------------------------------------------------------------
(* The library and the language *)

\* can.Message(arbitration_id, data, is_extended_id=False) builds the frame
\* iff bytearray(data) succeeds
BuildMessage(d) == \A i \in 1..Len(d) : d[i] \in 0..255

SendOp(id) == [op |-> "send", id |-> id]
RecvOp == [op |-> "recv", id |-> -1]
ShutdownOp == [op |-> "shutdown", id |-> -1]

\* the history of bus calls, a run of recv calls recorded once
Issue(log, o) ==
    IF o = RecvOp /\ Len(log) > 0 /\ log[Len(log)] = RecvOp
    THEN log ELSE Append(log, o)

\* faulty variants of the except clauses: a handler left out, and one that
\* catches Exception only
SetupCatches_Nothing(e) == FALSE
SendCatches_Nothing(e) == FALSE
ReceiveCatches_ExceptionOnly(e) == e = "Exception"

\* the except clauses
SetupCatches(e) == e = "Exception"
SendCatches(e) == e = "Exception"
ReceiveCatches(e) == e \in {"KeyboardInterrupt", "Exception"}
MainCatches(e) == e \in {"KeyboardInterrupt", "Exception"}
ShutdownCatches(e) == e = "Exception"

\* where an exception leaving a callee goes: main's handlers when the call
\* is inside main's try block, out of the program otherwise
Handler(r) == IF r \in {"m_sleep", "m_send2", "m_finally"} THEN "m_except" ELSE "done"

\* how the script ends when e leaves main
Uncaught(e) == IF entry = "main" THEN e ELSE exit

\* faulty variants of the return values: the failure returns what the
\* success returns
SetupReturn_AlwaysBus(raised) == "Bus"
SendReturn_AlwaysTrue(raised) == "True"

\* the values the functions return
SetupReturn(raised) == IF raised = "none" THEN "Bus" ELSE "None"
SendReturn(raised) == IF raised = "none" THEN "True" ELSE "False"

----------------------------------------------------------------------------
(* Initial states *)

NoHist == [open |-> "-", sleep |-> "-", recv |-> "-", shutdown |-> "-",
           caught |-> "-", frames |-> FALSE]

InitMain ==
    /\ entry = "main" /\ pc = "main"
    /\ session = "Closed" /\ bus = "unset"
    /\ can_id = 0 /\ data = <<>> /\ timeout = 0

InitSend ==
    /\ entry = "send_test_message" /\ pc = "send_test_message"
    /\ session = "Open" /\ bus = "Bus"
    /\ can_id \in DirectIds /\ data \in DirectData /\ timeout = 0

InitReceive ==
    /\ entry = "receive_messages" /\ pc = "receive_messages"
    /\ session = "Open" /\ bus = "Bus"
    /\ can_id = 0 /\ data = <<>> /\ timeout \in 0..MaxTimeout

Init ==
    /\ InitMain \/ InitSend \/ InitReceive
    /\ retpc = "done"
    /\ clock = 0 /\ start_time = 0
    /\ ret = "unset" /\ exc = "none"
    /\ ops = <<>> /\ sends = <<>> /\ hist = NoHist /\ out = {}
    /\ exit = "-"

----------------------------------------------------------------------------
(* setup_slcan_bus *)

SetupSlcanBus ==
    /\ pc = "setup_slcan_bus"
    /\ \E o \in {"ok", "Exception", "KeyboardInterrupt"} :
        LET raised == IF o = "ok" THEN "none" ELSE o IN
        /\ hist' = [hist EXCEPT !.open = o]
        /\ session' = IF o = "ok" THEN "Open" ELSE session
        /\ IF raised = "none" \/ SetupCatches(raised)
           THEN /\ ret' = SetupReturn(raised)
                /\ out' = out \cup {IF raised = "none" THEN "Successfully connected"
                                    ELSE "Failed to connect"}
                /\ pc' = retpc
                /\ UNCHANGED <<exc, exit>>
           ELSE /\ exc' = raised
                /\ pc' = Handler(retpc)
                /\ exit' = IF Handler(retpc) = "done" THEN Uncaught(raised) ELSE exit
                /\ UNCHANGED <<ret, out>>
    /\ UNCHANGED <<entry, retpc, bus, can_id, data, timeout, clock, start_time,
                   ops, sends>>

----------------------------------------------------------------------------
(* send_test_message *)

SendTestMessage ==
    /\ pc = "send_test_message"
    /\ LET built == BuildMessage(data) IN
       \E o \in IF built THEN {"ok", "Exception", "KeyboardInterrupt"} ELSE {"unbuilt"} :
        LET raised == IF ~built THEN "Exception" ELSE IF o = "ok" THEN "none" ELSE o IN
        /\ ops' = IF built THEN Issue(ops, SendOp(can_id)) ELSE ops
        /\ IF raised = "none" \/ SendCatches(raised)
           THEN /\ ret' = SendReturn(raised)
                /\ out' = out \cup {IF raised = "none" THEN "Sent message"
                                    ELSE "Failed to send message"}
                /\ pc' = retpc
                /\ sends' = Append(sends, [id |-> can_id, built |-> built, res |-> o,
                                           ret |-> SendReturn(raised)])
                /\ UNCHANGED <<exc, exit>>
           ELSE /\ exc' = raised
                /\ pc' = Handler(retpc)
                /\ exit' = IF Handler(retpc) = "done" THEN Uncaught(raised) ELSE exit
                /\ sends' = Append(sends, [id |-> can_id, built |-> built, res |-> o,
                                           ret |-> "raised"])
                /\ UNCHANGED <<ret, out>>
    /\ UNCHANGED <<entry, retpc, session, bus, can_id, data, timeout, clock,
                   start_time, hist>>

----------------------------------------------------------------------------
(* receive_messages *)

ReceiveStart ==
    /\ pc = "receive_messages"
    /\ out' = out \cup {"Listening for CAN messages"}
    /\ start_time' = clock
    /\ pc' = "rm_while"
    /\ UNCHANGED <<entry, retpc, session, bus, can_id, data, timeout, clock,
                   ret, exc, ops, sends, hist, exit>>

\* a faulty variant of the loop test: <= in place of <
ReceiveWhile_Inclusive ==
    /\ pc = "rm_while"
    /\ IF clock - start_time <= timeout
       THEN /\ pc' = "rm_recv"
            /\ UNCHANGED <<ret, hist>>
       ELSE /\ pc' = retpc
            /\ ret' = "None"
            /\ hist' = [hist EXCEPT !.recv = "timeout"]
    /\ UNCHANGED <<entry, retpc, session, bus, can_id, data, timeout, clock,
                   start_time, exc, ops, sends, out, exit>>

\* while (time.time() - start_time) < timeout
ReceiveWhile ==
    /\ pc = "rm_while"
    /\ IF clock - start_time < timeout
       THEN /\ pc' = "rm_recv"
            /\ UNCHANGED <<ret, hist>>
       ELSE /\ pc' = retpc
            /\ ret' = "None"
            /\ hist' = [hist EXCEPT !.recv = "timeout"]
    /\ UNCHANGED <<entry, retpc, session, bus, can_id, data, timeout, clock,
                   start_time, exc, ops, sends, out, exit>>

\* message = bus.recv(timeout=0.1), the print of a frame, and the handlers
ReceiveRecv ==
    /\ pc = "rm_recv"
    /\ ops' = Issue(ops, RecvOp)
    /\ \E o \in {"frame", "None", "Exception", "KeyboardInterrupt"} :
       \E d \in 0..RecvTimeout :
        /\ o = "frame" => d >= 1
        /\ o = "None" => d = RecvTimeout
        /\ clock' = clock + d
        /\ IF o \in {"frame", "None"}
           THEN /\ pc' = "rm_while"
                /\ out' = IF o = "frame" THEN out \cup {"Received message"} ELSE out
                /\ hist' = IF o = "frame" THEN [hist EXCEPT !.frames = TRUE] ELSE hist
                /\ UNCHANGED <<ret, exc, exit>>
           ELSE /\ hist' = [hist EXCEPT !.recv = o]
                /\ IF ReceiveCatches(o)
                   THEN /\ out' = out \cup {IF o = "KeyboardInterrupt"
                                            THEN "Receiving stopped by user"
                                            ELSE "Error receiving messages"}
                        /\ ret' = "None"
                        /\ pc' = retpc
                        /\ UNCHANGED <<exc, exit>>
                   ELSE /\ exc' = o
                        /\ pc' = Handler(retpc)
                        /\ exit' = IF Handler(retpc) = "done" THEN Uncaught(o) ELSE exit
                        /\ UNCHANGED <<ret, out>>
    /\ UNCHANGED <<entry, retpc, session, bus, can_id, data, timeout, start_time,
                   sends>>

----------------------------------------------------------------------------
(* main *)

\* the banner and the call bus = setup_slcan_bus("COM47", 500000)
MainStart ==
    /\ pc = "main"
    /\ out' = out \cup {"SLCAN CAN Bus Test"}
    /\ retpc' = "m_check"
    /\ pc' = "setup_slcan_bus"
    /\ UNCHANGED <<entry, session, bus, can_id, data, timeout, clock, start_time,
                   ret, exc, ops, sends, hist, exit>>

\* a faulty variant of the check: the test for None left out
MainCheckBus_NoExit ==
    /\ pc = "m_check"
    /\ bus' = ret
    /\ pc' = "m_send1"
    /\ UNCHANGED <<entry, retpc, session, can_id, data, timeout, clock, start_time,
                   ret, exc, ops, sends, hist, out, exit>>

\* bus = <the value returned>; if bus is None: sys.exit(1)
MainCheckBus ==
    /\ pc = "m_check"
    /\ bus' = ret
    /\ IF ret = "None"
       THEN pc' = "done" /\ exit' = "1"
       ELSE pc' = "m_send1" /\ exit' = exit
    /\ UNCHANGED <<entry, retpc, session, can_id, data, timeout, clock, start_time,
                   ret, exc, ops, sends, hist, out>>

\* send_test_message(bus, 0x123, b'\x01...\x08')
MainSend1 ==
    /\ pc = "m_send1"
    /\ out' = out \cup {"--- Sending Test Message ---"}
    /\ can_id' = FirstId /\ data' = FirstData
    /\ retpc' = "m_sleep"
    /\ pc' = "send_test_message"
    /\ UNCHANGED <<entry, session, bus, timeout, clock, start_time, ret, exc, ops,
                   sends, hist, exit>>

\* time.sleep(0.5)
MainSleep ==
    /\ pc = "m_sleep"
    /\ \E o \in {"ok", "KeyboardInterrupt"} :
        /\ hist' = [hist EXCEPT !.sleep = o]
        /\ IF o = "ok"
           THEN clock' = clock + SleepTime /\ pc' = "m_recv" /\ exc' = exc
           ELSE clock' = clock /\ pc' = "m_except" /\ exc' = o
    /\ UNCHANGED <<entry, retpc, session, bus, can_id, data, timeout, start_time,
                   ret, ops, sends, out, exit>>

\* receive_messages(bus, timeout=10.0)
MainReceive ==
    /\ pc = "m_recv"
    /\ out' = out \cup {"--- Receiving Messages ---"}
    /\ timeout' = Window
    /\ retpc' = "m_send2"
    /\ pc' = "receive_messages"
    /\ UNCHANGED <<entry, session, bus, can_id, data, clock, start_time, ret, exc,
                   ops, sends, hist, exit>>

\* a faulty variant of the second send: the call left out
MainSend2_Skipped ==
    /\ pc = "m_send2"
    /\ out' = out \cup {"--- Sending Another Test Message ---"}
    /\ pc' = "m_finally"
    /\ UNCHANGED <<entry, retpc, session, bus, can_id, data, timeout, clock,
                   start_time, ret, exc, ops, sends, hist, exit>>

\* send_test_message(bus, 0x456, b'\xAA\xBB\xCC\xDD')
MainSend2 ==
    /\ pc = "m_send2"
    /\ out' = out \cup {"--- Sending Another Test Message ---"}
    /\ can_id' = SecondId /\ data' = SecondData
    /\ retpc' = "m_finally"
    /\ pc' = "send_test_message"
    /\ UNCHANGED <<entry, session, bus, timeout, clock, start_time, ret, exc, ops,
                   sends, hist, exit>>

\* a faulty variant of the handlers: the clean-up on the normal path only,
\* not in a finally block
MainExcept_NoCleanup ==
    /\ pc = "m_except"
    /\ hist' = [hist EXCEPT !.caught = exc]
    /\ out' = out \cup {IF exc = "KeyboardInterrupt"
                        THEN "Test interrupted by user" ELSE "Test error"}
    /\ exc' = "none"
    /\ pc' = "done"
    /\ exit' = "0"
    /\ UNCHANGED <<entry, retpc, session, bus, can_id, data, timeout, clock,
                   start_time, ret, ops, sends>>

\* except KeyboardInterrupt: ... except Exception as e: ...
MainExcept ==
    /\ pc = "m_except"
    /\ IF MainCatches(exc)
       THEN /\ hist' = [hist EXCEPT !.caught = exc]
            /\ out' = out \cup {IF exc = "KeyboardInterrupt"
                                THEN "Test interrupted by user" ELSE "Test error"}
            /\ exc' = "none"
       ELSE UNCHANGED <<hist, out, exc>>
    /\ pc' = "m_finally"
    /\ UNCHANGED <<entry, retpc, session, bus, can_id, data, timeout, clock,
                   start_time, ret, ops, sends, exit>>

\* finally: try: bus.shutdown() ... except Exception as e: ...
MainFinally ==
    /\ pc = "m_finally"
    /\ ops' = Issue(ops, ShutdownOp)
    /\ session' = "Shutdown"
    /\ \E o \in {"ok", "Exception", "KeyboardInterrupt"} :
        LET raised == IF o = "ok" THEN "none" ELSE o
            left == IF raised # "none" /\ ~ShutdownCatches(raised) THEN raised ELSE exc IN
        /\ hist' = [hist EXCEPT !.shutdown = o]
        /\ out' = IF raised = "none" THEN out \cup {"CAN bus connection closed"}
                  ELSE IF ShutdownCatches(raised) THEN out \cup {"Error closing CAN bus"}
                  ELSE out
        /\ exc' = left
        /\ exit' = IF left = "none" THEN "0" ELSE left
    /\ pc' = "done"
    /\ UNCHANGED <<entry, retpc, bus, can_id, data, timeout, clock, start_time,
                   ret, sends>>

----------------------------------------------------------------------------

Next ==
    \/ MainStart
    \/ SetupSlcanBus
    \/ MainCheckBus
    \/ MainSend1
    \/ SendTestMessage
    \/ MainSleep
    \/ MainReceive
    \/ ReceiveStart
    \/ ReceiveWhile
    \/ ReceiveRecv
    \/ MainSend2
    \/ MainExcept
    \/ MainFinally

Spec == Init /\ [][Next]_vars

\* the interpreter keeps running the script until it ends
FairSpec == Spec /\ WF_vars(Next)

----------------------------------------------------------------------------
(* Properties *)

Done == pc = "done"
FromMain == entry = "main"
Raises == {"Exception", "KeyboardInterrupt"}
Elapsed == clock - start_time
IsPrefix(s, t) == Len(s) <= Len(t) /\ SubSeq(t, 1, Len(s)) = s
Count(o) == Cardinality({i \in DOMAIN ops : ops[i] = o})

\* the bus calls of an undisturbed run, with and without a bus.recv call
WithWindow == <<SendOp(FirstId), RecvOp, SendOp(SecondId), ShutdownOp>>
NoWindow == <<SendOp(FirstId), SendOp(SecondId), ShutdownOp>>

\* neither main's except clauses nor an exception on its way to them
NothingReachedMain == hist.caught = "-" /\ pc # "m_except"

\* C1: when the bus opened and nothing reaches main's except clauses, the bus
\* calls are, in order, send 0x123, the bus.recv calls, send 0x456, shutdown:
\* at every moment a prefix of that, at the end all of it, with two sends.
C1_CallOrder ==
    (FromMain /\ hist.open = "ok" /\ NothingReachedMain) =>
        /\ IsPrefix(ops, WithWindow) \/ IsPrefix(ops, NoWindow)
        /\ Done => /\ ops \in {WithWindow, NoWindow}
                   /\ Len(sends) = 2
                   /\ Count(SendOp(FirstId)) = 1 /\ Count(SendOp(SecondId)) = 1

C1_Witness ==
    /\ FromMain /\ Done /\ NothingReachedMain
    /\ ops = WithWindow /\ hist.frames /\ hist.recv = "timeout"

\* C2: main is about to call bus.send or bus.recv only with a bus that
\* setup_slcan_bus returned and that was not shut down, and runs nothing
\* after bus.shutdown.
C2_OnlyOnOpenSession ==
    FromMain =>
        /\ (pc = "rm_recv" \/ (pc = "send_test_message" /\ BuildMessage(data))) =>
              /\ session = "Open" /\ bus = "Bus"
              /\ hist.open = "ok" /\ hist.shutdown = "-"
        /\ hist.shutdown # "-" => Done

C2_Witness == FromMain /\ pc = "rm_recv" /\ Elapsed > 0 /\ session = "Open"

\* C3: when can.interface.Bus raises an Exception, setup_slcan_bus returns
\* None and raises nothing, the session stays closed, no bus call is issued
\* and main ends with status 1.
C3_OpenFailure ==
    (FromMain /\ hist.open = "Exception") =>
        /\ ret = "None" /\ exc = "none"
        /\ session = "Closed"
        /\ ops = <<>> /\ sends = <<>>
        /\ pc \in {"m_check", "done"}
        /\ Done => exit = "1" /\ bus = "None"

C3_Witness == FromMain /\ hist.open = "Exception" /\ Done /\ exit = "1"

\* C4: after a successful open bus.shutdown is called at most once, and
\* exactly once when main has ended, whatever happened in between; an
\* Exception it raises does not leave main.
C4_ShutdownOnce ==
    (FromMain /\ hist.open = "ok") =>
        /\ Count(ShutdownOp) <= 1
        /\ Done => Count(ShutdownOp) = 1 /\ hist.shutdown # "-"
        /\ hist.shutdown = "Exception" => exc = "none" /\ exit = "0"

C4_Witness ==
    /\ FromMain /\ Done /\ hist.caught = "KeyboardInterrupt"
    /\ hist.shutdown = "Exception" /\ exit = "0" /\ Count(ShutdownOp) = 1

InReceive == pc \in {"receive_messages", "rm_while", "rm_recv"}

\* the state right after send_test_message, receive_messages returned
SendReturned ==
    \/ pc = retpc /\ pc \in {"m_sleep", "m_finally"}
    \/ entry = "send_test_message" /\ Done
ReceiveReturned ==
    \/ pc = retpc /\ pc = "m_send2"
    \/ entry = "receive_messages" /\ Done

\* C5 as stated: with no frame arriving, receive_messages has returned by
\* the time timeout has elapsed, and never blocks longer.
C5_NeverPastTimeout ==
    (hist.recv = "timeout" /\ ~hist.frames) => Elapsed <= timeout

\* C5, amended: a bus.recv starts only while less than timeout has elapsed
\* and takes at most 0.1 s; receive_messages always returns; when it returns
\* because the time is up, at least timeout and less than timeout + 0.1 s
\* have elapsed.
C5_BoundedOverrun ==
    /\ [](pc = "rm_recv" => Elapsed < timeout)
    /\ [][pc = "rm_recv" => clock' - clock <= RecvTimeout]_vars
    /\ [](hist.recv = "timeout" => timeout <= Elapsed /\ Elapsed < timeout + RecvTimeout)
    /\ [](InReceive => <>(~InReceive))

C5_Witness ==
    /\ entry = "receive_messages" /\ Done
    /\ hist.recv = "timeout" /\ ~hist.frames
    /\ Elapsed > timeout

\* C6: send_test_message returns True exactly when bus.send was called and
\* returned; when can.Message or bus.send raises an Exception it returns
\* False and raises nothing.
C6_SendResult ==
    \A i \in DOMAIN sends :
        /\ sends[i].ret = "True" <=> (sends[i].built /\ sends[i].res = "ok")
        /\ (~sends[i].built \/ sends[i].res = "Exception") => sends[i].ret = "False"
        /\ (i = Len(sends) /\ sends[i].ret # "raised" /\ SendReturned) =>
              ret = sends[i].ret /\ exc = "none"

C6_Witness ==
    /\ entry = "send_test_message" /\ Done
    /\ Len(sends) = 1 /\ ~sends[1].built /\ ret = "False" /\ exc = "none"

\* the value each operation hands its caller when nothing fails
OpenSuccess == "Bus"
SendSuccess == "True"
ReceiveSuccess == "None"
MainSuccess == "0"

\* C7 as stated: every failure of open, send, receive and close reaches the
\* caller as a result other than the result of a success.
C7_FailuresDistinguishable ==
    /\ (hist.open = "Exception" /\ pc = "m_check") => ret # OpenSuccess
    /\ \A i \in DOMAIN sends :
          (sends[i].res = "Exception" \/ ~sends[i].built) => sends[i].ret # SendSuccess
    /\ (hist.recv \in Raises /\ ReceiveReturned /\ exc = "none") =>
          ret # ReceiveSuccess
    /\ (hist.shutdown = "Exception" /\ Done) => exit # MainSuccess

\* C7, amended: every caught failure is printed; a failed open returns None
\* instead of the bus and a failed send False instead of True, while a
\* failed receive returns None like a receive that ran to its timeout, and
\* after a failed shutdown main ends like after a clean one.
C7_FailuresReported ==
    /\ hist.open = "Exception" =>
          /\ "Failed to connect" \in out
          /\ pc = "m_check" => ret = "None" /\ ret # OpenSuccess
    /\ \A i \in DOMAIN sends :
          (sends[i].res = "Exception" \/ ~sends[i].built) =>
              /\ "Failed to send message" \in out
              /\ sends[i].ret = "False" /\ sends[i].ret # SendSuccess
    /\ hist.recv = "Exception" => "Error receiving messages" \in out
    /\ hist.recv = "KeyboardInterrupt" => "Receiving stopped by user" \in out
    /\ (hist.recv \in Raises /\ ReceiveReturned) => ret = ReceiveSuccess
    /\ hist.caught = "KeyboardInterrupt" => "Test interrupted by user" \in out
    /\ hist.shutdown = "Exception" =>
          "Error closing CAN bus" \in out /\ exit = MainSuccess

C7_Witness ==
    /\ FromMain /\ Done /\ exit = "0"
    /\ Len(sends) = 2 /\ sends[1].res = "Exception"
    /\ hist.recv = "Exception" /\ hist.shutdown = "Exception"

\* C8 (a second close is a no-op) has no formula: the script calls
\* bus.shutdown once (C4), and what a second call does is the library's affair.

FirstSendFailed == Len(sends) >= 1 /\ sends[1].id = FirstId /\ sends[1].res = "Exception"

\* C9 as stated: when the first send fails with an Exception, main still
\* runs the full receive window, attempts the second send and shuts down.
C9_FailedSendNotFatal ==
    (FromMain /\ FirstSendFailed /\ Done) =>
        /\ hist.recv = "timeout"
        /\ Len(sends) = 2 /\ sends[2].id = SecondId
        /\ hist.shutdown # "-"

\* C9, amended: the failed first send leaves the session open and main at
\* the pause; the bus is opened once and shut down only at the end; and
\* unless a KeyboardInterrupt reaches main, main enters the receive window,
\* which lasts until its timeout or until a bus.recv raises, then attempts
\* the second send and shuts the bus down.
C9_FailedSendContinues ==
    (FromMain /\ FirstSendFailed) =>
        /\ ~Done => session = "Open" /\ Count(ShutdownOp) = 0
        /\ (Len(sends) = 1 /\ hist.sleep = "-") => pc = "m_sleep" /\ exc = "none"
        /\ Done =>
            /\ ops[Len(ops)] = ShutdownOp /\ Count(ShutdownOp) = 1
            /\ hist.caught = "-" =>
                  /\ ops = WithWindow
                  /\ hist.recv \in {"timeout"} \cup Raises
                  /\ Len(sends) = 2 /\ sends[2].id = SecondId

C9_Witness ==
    /\ FromMain /\ FirstSendFailed /\ Done /\ hist.caught = "-"
    /\ hist.recv = "timeout" /\ Len(sends) = 2

\* C10: a bus.recv that raises ends the window at once and the exception
\* stays inside receive_messages, so that the second send is attempted
\* before the shutdown; a KeyboardInterrupt during a send or the pause reaches
\* main, after which nothing but bus.shutdown is called.
C10_Containment ==
    FromMain =>
        /\ hist.recv \in Raises =>
              /\ ~InReceive
              /\ pc = "m_send2" => exc = "none" /\ hist.caught = "-"
              /\ pc \in {"m_send2", "send_test_message", "m_except", "m_finally", "done"}
              /\ pc \in {"m_except", "m_finally", "done"} =>
                    /\ Len(sends) = 2 /\ sends[2].id = SecondId
                    /\ Count(SendOp(SecondId)) = 1
              /\ Done => ops = WithWindow
        /\ (Len(sends) >= 1 /\ sends[1].res = "KeyboardInterrupt") =>
              /\ pc \in {"m_except", "m_finally", "done"}
              /\ Len(sends) = 1 /\ hist.recv = "-"
              /\ pc # "m_except" => hist.caught = "KeyboardInterrupt"
              /\ IsPrefix(ops, <<SendOp(FirstId), ShutdownOp>>)
              /\ Done => ops = <<SendOp(FirstId), ShutdownOp>>
        /\ hist.sleep = "KeyboardInterrupt" =>
              /\ pc \in {"m_except", "m_finally", "done"}
              /\ Len(sends) = 1 /\ hist.recv = "-"
              /\ pc # "m_except" => hist.caught = "KeyboardInterrupt"
              /\ IsPrefix(ops, <<SendOp(FirstId), ShutdownOp>>)
              /\ Done => ops = <<SendOp(FirstId), ShutdownOp>>
        /\ (Len(sends) = 2 /\ sends[2].res = "KeyboardInterrupt") =>
              /\ pc \in {"m_except", "m_finally", "done"}
              /\ pc # "m_except" => hist.caught = "KeyboardInterrupt"
              /\ IsPrefix(ops, WithWindow)
              /\ Done => ops = WithWindow

C10_Witness ==
    /\ FromMain /\ Done
    /\ hist.recv = "KeyboardInterrupt"
    /\ Len(sends) = 2 /\ sends[2].res = "KeyboardInterrupt"
    /\ hist.caught = "KeyboardInterrupt"

====
